---- MODULE Spec2Model ----
(***************************************************************************)
(* The clipboard engine of file_operations.py: class FileOperations with  *)
(* copy, cut, paste, clear_clipboard and show_clipboard, over a model of   *)
(* the host filesystem.                                                    *)
(*                                                                         *)
(* A file name is a sequence of tokens, each token a string without a dot  *)
(* except the token "." itself, so "r.t" is <<"r", ".", "t">>.  A path is  *)
(* a record [abs, parts]: abs tells whether the path string is absolute,   *)
(* parts is the sequence of its names.  The filesystem is a function from  *)
(* the parts of absolute paths to nodes; a directory's subtree is the set  *)
(* of entries it is a prefix of.                                           *)
(***************************************************************************)
EXTENDS Integers, Sequences, FiniteSets, TLC

VARIABLES
    clipboard,                \* self.clipboard
    operation_type,           \* self.operation_type
    fs,                       \* the host filesystem
    pc,                       \* position of the single caller
    dest_path,                \* paste: Path(destination)
    default_conflict_action,  \* paste: its second argument
    idx,                      \* paste: position of the for loop in the clipboard
    success_count,            \* paste: local
    failed_count,             \* paste: local
    rejects,                  \* prompt: invalid inputs rejected so far
    call,                     \* the call in progress, or the last one
    pre,                      \* clipboard, intent and filesystem when it began
    ret,                      \* what the last call returned
    outcomes,                 \* paste: what happened to each entry, in order
    nops,                     \* calls made so far
    exit_code,                \* set when the process has exited
    staged                    \* the tree each clipboard entry held when staged

vars == <<clipboard, operation_type, fs, pc, dest_path, default_conflict_action,
          idx, success_count, failed_count, rejects, call, pre, ret, outcomes,
          nops, exit_code, staged>>

(***************************** bounds **************************************)
MaxPaths == 2
MaxOps == 3
MaxRejects == 1

(************************* enumerations ************************************)
None == "none"
COPY == "copy"
CUT == "cut"
REPLACE == "replace"
KEEP_BOTH == "keep_both"
SKIP == "skip"

OperationType == {COPY, CUT}
ConflictAction == {REPLACE, KEEP_BOTH, SKIP}

(***************************** paths ***************************************)
DirW == <<"w">>
DirD == <<"d">>
NReport == <<"r", ".", "t">>
NData == <<"d", ".", "v">>
NKidX == <<"x">>
NKidY == <<"y">>

\* the process's working directory
Cwd == [abs |-> TRUE, parts |-> <<DirW>>]

Rel(parts) == [abs |-> FALSE, parts |-> parts]
Abs(parts) == [abs |-> TRUE, parts |-> parts]
NoPath == Rel(<<>>)

\* Path.absolute(): a relative path is joined to the working directory
Absolute(p) == IF p.abs THEN p ELSE [abs |-> TRUE, parts |-> Cwd.parts \o p.parts]

\* where the operating system finds a path
Loc(p) == Absolute(p).parts

\* Path.name
Name(p) == p.parts[Len(p.parts)]

\* dest_path / name
Join(p, name) == [abs |-> p.abs, parts |-> Append(p.parts, name)]

\* Path.parent
Parent(p) == [abs |-> p.abs, parts |-> SubSeq(p.parts, 1, Len(p.parts) - 1)]

(*************************** filesystem ************************************)
File(data) == [kind |-> "file", data |-> data]
Dir == [kind |-> "dir", data |-> 0]

IsPrefix(q, x) == Len(q) <= Len(x) /\ SubSeq(x, 1, Len(q)) = q

Restrict(f, D) == [x \in D |-> f[x]]

Exists(f, p) == Loc(p) \in DOMAIN f
IsDir(f, p) == Exists(f, p) /\ f[Loc(p)].kind = "dir"

Subtree(f, q) == {x \in DOMAIN f : IsPrefix(q, x)}

\* the content found at q: every entry under q, by its path relative to q
TreeAt(f, q) ==
    [r \in {SubSeq(x, Len(q) + 1, Len(x)) : x \in Subtree(f, q)} |-> f[q \o r]]

\* shutil.rmtree / Path.unlink
Remove(f, q) == Restrict(f, DOMAIN f \ Subtree(f, q))

\* the entries of the tree at s, placed at d
Graft(f, s, d) == [x \in {d \o r : r \in DOMAIN TreeAt(f, s)} |->
                      f[s \o SubSeq(x, Len(d) + 1, Len(x))]]

ParentIsDir(f, q) ==
    LET par == SubSeq(q, 1, Len(q) - 1)
    IN par \in DOMAIN f /\ f[par].kind = "dir"

Fail(f) == [ok |-> FALSE, fs |-> f]
Done(f) == [ok |-> TRUE, fs |-> f]

\* shutil.copytree(src, dst, dirs_exist_ok=False)
CopyTree(f, s, d) ==
    IF s \notin DOMAIN f \/ d \in DOMAIN f \/ ~ParentIsDir(f, d) \/ IsPrefix(s, d)
    THEN Fail(f)
    ELSE Done(Graft(f, s, d) @@ f)

\* shutil.copy2(src, dst): into dst when dst is a directory, else onto dst
Copy2(f, s, d) ==
    LET real == IF d \in DOMAIN f /\ f[d].kind = "dir" THEN Append(d, s[Len(s)]) ELSE d
    IN IF \/ s \notin DOMAIN f
          \/ f[s].kind = "dir"
          \/ real = s
          \/ ~ParentIsDir(f, real)
          \/ (real \in DOMAIN f /\ f[real].kind = "dir")
       THEN Fail(f)
       ELSE Done((real :> f[s]) @@ f)

\* shutil.move(src, dst): into dst when dst is a directory, else a rename to dst
Move(f, s, d) ==
    LET intoDir == d \in DOMAIN f /\ f[d].kind = "dir"
        real == IF intoDir THEN Append(d, s[Len(s)]) ELSE d
    IN IF \/ s \notin DOMAIN f
          \/ (intoDir /\ real \in DOMAIN f)
          \/ (IsPrefix(s, real) /\ real # s)
          \/ ~ParentIsDir(f, real)
          \/ (real \in DOMAIN f /\ real # s /\ f[s].kind = "dir")
       THEN Fail(f)
       ELSE IF real = s THEN Done(f)
       ELSE Done(Graft(f, s, real) @@ Remove(f, s))

(* What the operating system does to the calls of one entry: nothing, an   *)
(* error raised by the removal of the existing target, or an error raised  *)
(* by the transfer (a PermissionError or another OSError in both cases).   *)
Faults == {"none", "remove", "transfer"}

\* FileOperations._copy_item
CopyItem(f, source, destination, fault) ==
    IF fault = "transfer" THEN Fail(f)
    ELSE IF IsDir(f, source)
         THEN CopyTree(f, Loc(source), Loc(destination))
         ELSE Copy2(f, Loc(source), Loc(destination))

\* FileOperations._move_item
MoveItem(f, source, destination, fault) ==
    IF fault = "transfer" THEN Fail(f)
    ELSE Move(f, Loc(source), Loc(destination))

(**************************** unique names *********************************)
Dot == "."

\* the position of the last dot of a name, 0 when it has none
RECURSIVE LastDot(_, _)
LastDot(name, i) ==
    IF i = 0 THEN 0 ELSE IF name[i] = Dot THEN i ELSE LastDot(name, i - 1)

\* PurePath.suffix: from the last dot, unless that dot begins or ends the name
Suffix(name) ==
    LET i == LastDot(name, Len(name))
    IN IF 1 < i /\ i < Len(name) THEN SubSeq(name, i, Len(name)) ELSE <<>>

\* PurePath.stem
Stem(name) == SubSeq(name, 1, Len(name) - Len(Suffix(name)))

\* f" ({counter})"
CounterText(counter) == " (" \o ToString(counter) \o ")"

\* a name whose counter follows the extension
NewNameAfterSuffix(name, counter) == Append(name, CounterText(counter))

\* f"{stem} ({counter}){suffix}"
NewName(name, counter) == Stem(name) \o <<CounterText(counter)>> \o Suffix(name)

RECURSIVE UniqueFrom(_, _, _)
UniqueFrom(f, path, counter) ==
    LET new_path == Join(Parent(path), NewName(Name(path), counter))
    IN IF ~Exists(f, new_path) THEN new_path ELSE UniqueFrom(f, path, counter + 1)

\* FileOperations._get_unique_name
GetUniqueName(f, path) == UniqueFrom(f, path, 1)

(***************************** staging *************************************)
\* the validation loop of copy and cut: the absolute paths, or the failure
RECURSIVE Validate(_, _, _)
Validate(f, paths, validated_paths) ==
    IF paths = <<>> THEN [ok |-> TRUE, validated_paths |-> validated_paths]
    ELSE IF ~Exists(f, Head(paths))
         THEN [ok |-> FALSE, validated_paths |-> validated_paths]
         ELSE Validate(f, Tail(paths), Append(validated_paths, Absolute(Head(paths))))

(****************************** paste **************************************)
\* a REPLACE that unlinks files and leaves an existing directory in place
RemoveExistingFilesOnly(f, dest_item_path) ==
    IF IsDir(f, dest_item_path) THEN f ELSE Remove(f, Loc(dest_item_path))

\* paste, lines 174-179: the existing target is removed under REPLACE
RemoveExisting(f, dest_item_path) == Remove(f, Loc(dest_item_path))

(* One pass of the body of paste's for loop, lines 161-199, for the entry  *)
(* source_path under the conflict action and the fault given: the outcome  *)
(* "ok" (line 192), "skip" (line 173) or "fail" (lines 194-199), the       *)
(* filesystem left behind and the final destination path.                  *)
ProcessEntry(f, op, source_path, dest, action, fault) ==
    LET naive == Join(dest, Name(source_path))
        conflict == Exists(f, naive)
    IN IF conflict /\ action = SKIP
       THEN [res |-> "skip", fs |-> f, dst |-> naive]
       ELSE IF conflict /\ action = REPLACE /\ fault = "remove"
       THEN [res |-> "fail", fs |-> f, dst |-> naive]
       ELSE LET f1 == IF conflict /\ action = REPLACE
                      THEN RemoveExisting(f, naive) ELSE f
                dest_item_path == IF conflict /\ action = KEEP_BOTH
                                  THEN GetUniqueName(f, naive) ELSE naive
                r == IF op = COPY
                     THEN CopyItem(f1, source_path, dest_item_path, fault)
                     ELSE MoveItem(f1, source_path, dest_item_path, fault)
            IN [res |-> IF r.ok THEN "ok" ELSE "fail", fs |-> r.fs,
                dst |-> dest_item_path]

(* What the per-entry messages of paste report, lines 172, 187, 190, 195   *)
(* and 198, with the conflict action and where it came from: the default   *)
(* of the call, a line typed at the prompt, or the prompt's error handler. *)
Outcome(f, source_path, dest, action, via, e) ==
    [res |-> e.res, src |-> source_path, naive |-> Join(dest, Name(source_path)),
     dst |-> e.dst, conflict |-> Exists(f, Join(dest, Name(source_path))),
     action |-> action, via |-> via, srctree |-> TreeAt(f, Loc(source_path))]

Count(seq, res) == Cardinality({i \in DOMAIN seq : seq[i].res = res})

Call(op, paths, dest, dflt) == [op |-> op, paths |-> paths, dest |-> dest, dflt |-> dflt]
Snapshot == [clipboard |-> clipboard, operation_type |-> operation_type, fs |-> fs]

\* the tree found at each of the paths, in order
StagedTrees(f, paths) == [i \in DOMAIN paths |-> TreeAt(f, Loc(paths[i]))]

(****************************** inputs *************************************)
PathInputs == {Rel(<<NReport>>), Rel(<<NData>>), Abs(<<DirD, NReport>>)}

RECURSIVE SeqsUpTo(_, _)
SeqsUpTo(S, n) ==
    IF n = 0 THEN {<<>>}
    ELSE LET shorter == SeqsUpTo(S, n - 1)
         IN shorter \cup {Append(q, x) : q \in shorter, x \in S}

PathLists == SeqsUpTo(PathInputs, MaxPaths)

DestInputs == {Abs(<<DirD>>), Abs(<<DirW>>), Rel(<<NReport>>)}

DefaultInputs == {None} \cup ConflictAction

\* what the user types at the conflict prompt
PromptInputs == {<<"R">>, <<"k">>, <<" ", "s", " ">>, <<"x">>, <<>>}

\* the filesystems the program may start in
BaseFs ==
    (<<>> :> Dir) @@ (<<DirW>> :> Dir) @@ (<<DirD>> :> Dir)
    @@ (<<DirW, NReport>> :> File(1))
    @@ (<<DirW, NData>> :> Dir) @@ (<<DirW, NData, NKidX>> :> File(2))

DestReport == (<<DirD, NReport>> :> File(3))
DestReport1 == (<<DirD, NewName(NReport, 1)>> :> File(4))
DestData == (<<DirD, NData>> :> Dir) @@ (<<DirD, NData, NKidY>> :> File(5))

InitialFs ==
    {BaseFs @@ a @@ b @@ c : a \in {<<>>, DestReport}, b \in {<<>>, DestReport1},
                              c \in {<<>>, DestData}}

(******************************* state *************************************)
Init ==
    /\ clipboard = <<>>
    /\ operation_type = None
    /\ fs \in InitialFs
    /\ pc = "idle"
    /\ dest_path = NoPath
    /\ default_conflict_action = None
    /\ idx = 0
    /\ success_count = 0
    /\ failed_count = 0
    /\ rejects = 0
    /\ call = Call("init", <<>>, NoPath, None)
    /\ pre = [clipboard |-> <<>>, operation_type |-> None, fs |-> fs]
    /\ ret = "None"
    /\ outcomes = <<>>
    /\ nops = 0
    /\ exit_code = -1
    /\ staged = <<>>

PasteLocals == <<dest_path, default_conflict_action, idx, success_count,
                 failed_count, rejects>>

\* a copy that extends the clipboard with the validated paths
CopyAppends(paths) ==
    /\ pc = "idle" /\ nops < MaxOps
    /\ LET v == Validate(fs, paths, <<>>)
       IN IF v.ok
          THEN /\ clipboard' = clipboard \o v.validated_paths
               /\ operation_type' = COPY
               /\ staged' = staged \o StagedTrees(fs, v.validated_paths)
               /\ ret' = "True"
          ELSE /\ UNCHANGED <<clipboard, operation_type, staged>>
               /\ ret' = "False"
    /\ call' = Call("copy", paths, NoPath, None)
    /\ pre' = Snapshot
    /\ outcomes' = <<>>
    /\ nops' = nops + 1
    /\ UNCHANGED <<fs, pc, exit_code>>
    /\ UNCHANGED PasteLocals

\* FileOperations.copy
Copy(paths) ==
    /\ pc = "idle" /\ nops < MaxOps
    /\ LET v == Validate(fs, paths, <<>>)
       IN IF v.ok
          THEN /\ clipboard' = v.validated_paths
               /\ operation_type' = COPY
               /\ staged' = StagedTrees(fs, v.validated_paths)
               /\ ret' = "True"
          ELSE /\ UNCHANGED <<clipboard, operation_type, staged>>
               /\ ret' = "False"
    /\ call' = Call("copy", paths, NoPath, None)
    /\ pre' = Snapshot
    /\ outcomes' = <<>>
    /\ nops' = nops + 1
    /\ UNCHANGED <<fs, pc, exit_code>>
    /\ UNCHANGED PasteLocals

\* a cut that stores each path as soon as it is validated
CutStoresPrefix(paths) ==
    /\ pc = "idle" /\ nops < MaxOps
    /\ LET v == Validate(fs, paths, <<>>)
       IN /\ clipboard' = v.validated_paths
          /\ operation_type' = CUT
          /\ staged' = StagedTrees(fs, v.validated_paths)
          /\ ret' = IF v.ok THEN "True" ELSE "False"
    /\ call' = Call("cut", paths, NoPath, None)
    /\ pre' = Snapshot
    /\ outcomes' = <<>>
    /\ nops' = nops + 1
    /\ UNCHANGED <<fs, pc, exit_code>>
    /\ UNCHANGED PasteLocals

\* FileOperations.cut
Cut(paths) ==
    /\ pc = "idle" /\ nops < MaxOps
    /\ LET v == Validate(fs, paths, <<>>)
       IN IF v.ok
          THEN /\ clipboard' = v.validated_paths
               /\ operation_type' = CUT
               /\ staged' = StagedTrees(fs, v.validated_paths)
               /\ ret' = "True"
          ELSE /\ UNCHANGED <<clipboard, operation_type, staged>>
               /\ ret' = "False"
    /\ call' = Call("cut", paths, NoPath, None)
    /\ pre' = Snapshot
    /\ outcomes' = <<>>
    /\ nops' = nops + 1
    /\ UNCHANGED <<fs, pc, exit_code>>
    /\ UNCHANGED PasteLocals

\* a paste that checks that the destination exists, not that it is a directory
PasteCallNoDirCheck(destination, dflt) ==
    /\ pc = "idle" /\ nops < MaxOps
    /\ call' = Call("paste", <<>>, destination, dflt)
    /\ pre' = Snapshot
    /\ nops' = nops + 1
    /\ outcomes' = <<>>
    /\ IF \/ clipboard = <<>>
          \/ operation_type = None
          \/ ~Exists(fs, destination)
       THEN /\ ret' = "False"
            /\ UNCHANGED <<pc, dest_path, default_conflict_action, idx,
                           success_count, failed_count>>
       ELSE /\ ret' = "None"
            /\ pc' = "loop"
            /\ dest_path' = destination
            /\ default_conflict_action' = dflt
            /\ idx' = 1
            /\ success_count' = 0
            /\ failed_count' = 0
    /\ UNCHANGED <<clipboard, operation_type, fs, rejects, exit_code, staged>>

\* FileOperations.paste, lines 135-158: the checks before the loop
PasteCall(destination, dflt) ==
    /\ pc = "idle" /\ nops < MaxOps
    /\ call' = Call("paste", <<>>, destination, dflt)
    /\ pre' = Snapshot
    /\ nops' = nops + 1
    /\ outcomes' = <<>>
    /\ IF \/ clipboard = <<>>
          \/ operation_type = None
          \/ ~Exists(fs, destination)
          \/ ~IsDir(fs, destination)
       THEN /\ ret' = "False"
            /\ UNCHANGED <<pc, dest_path, default_conflict_action, idx,
                           success_count, failed_count>>
       ELSE /\ ret' = "None"
            /\ pc' = "loop"
            /\ dest_path' = destination
            /\ default_conflict_action' = dflt
            /\ idx' = 1
            /\ success_count' = 0
            /\ failed_count' = 0
    /\ UNCHANGED <<clipboard, operation_type, fs, rejects, exit_code, staged>>

\* a loop whose entry error reaches the handler of line 211 and ends the call
TransferAborts(action, via, fault) ==
    LET e == ProcessEntry(fs, operation_type, clipboard[idx], dest_path, action, fault)
    IN /\ fs' = e.fs
       /\ outcomes' = Append(outcomes, Outcome(fs, clipboard[idx], dest_path, action, via, e))
       /\ rejects' = 0
       /\ IF e.res = "fail"
          THEN /\ pc' = "idle"
               /\ ret' = "False"
               /\ dest_path' = NoPath
               /\ default_conflict_action' = None
               /\ idx' = 0
               /\ success_count' = 0
               /\ failed_count' = 0
          ELSE /\ pc' = "loop"
               /\ idx' = idx + 1
               /\ success_count' = IF e.res = "ok" THEN success_count + 1
                                    ELSE success_count
               /\ UNCHANGED <<ret, dest_path, default_conflict_action, failed_count>>
       /\ UNCHANGED <<clipboard, operation_type, call, pre, nops, exit_code, staged>>

\* a loop that counts a skipped entry among the failed ones
TransferSkipFails(action, via, fault) ==
    LET e == ProcessEntry(fs, operation_type, clipboard[idx], dest_path, action, fault)
    IN /\ fs' = e.fs
       /\ success_count' = IF e.res = "ok" THEN success_count + 1 ELSE success_count
       /\ failed_count' = IF e.res = "ok" THEN failed_count ELSE failed_count + 1
       /\ outcomes' = Append(outcomes, Outcome(fs, clipboard[idx], dest_path, action, via, e))
       /\ idx' = idx + 1
       /\ pc' = "loop"
       /\ rejects' = 0
       /\ UNCHANGED <<clipboard, operation_type, dest_path, default_conflict_action,
                      call, pre, ret, nops, exit_code, staged>>

\* paste, lines 184-199: the entry at idx is transferred, skipped or failed
Transfer(action, via, fault) ==
    LET e == ProcessEntry(fs, operation_type, clipboard[idx], dest_path, action, fault)
    IN /\ fs' = e.fs
       /\ success_count' = IF e.res = "ok" THEN success_count + 1 ELSE success_count
       /\ failed_count' = IF e.res = "fail" THEN failed_count + 1 ELSE failed_count
       /\ outcomes' = Append(outcomes, Outcome(fs, clipboard[idx], dest_path, action, via, e))
       /\ idx' = idx + 1
       /\ pc' = "loop"
       /\ rejects' = 0
       /\ UNCHANGED <<clipboard, operation_type, dest_path, default_conflict_action,
                      call, pre, ret, nops, exit_code, staged>>

\* a loop that asks at every conflict, whatever default the call was given
PasteEntryAsksAnyway ==
    /\ pc = "loop" /\ idx <= Len(clipboard)
    /\ IF Exists(fs, Join(dest_path, Name(clipboard[idx])))
       THEN /\ pc' = "prompt"
            /\ UNCHANGED <<clipboard, operation_type, fs, dest_path,
                           default_conflict_action, idx, success_count, failed_count,
                           rejects, call, pre, ret, outcomes, nops, exit_code, staged>>
       ELSE \E fault \in Faults : Transfer(default_conflict_action, "default", fault)

\* paste, lines 160-199: one iteration of the loop, up to the prompt if it asks
PasteEntry ==
    /\ pc = "loop" /\ idx <= Len(clipboard)
    /\ IF /\ Exists(fs, Join(dest_path, Name(clipboard[idx])))
          /\ default_conflict_action = None
       THEN /\ pc' = "prompt"
            /\ UNCHANGED <<clipboard, operation_type, fs, dest_path,
                           default_conflict_action, idx, success_count, failed_count,
                           rejects, call, pre, ret, outcomes, nops, exit_code, staged>>
       ELSE \E fault \in Faults : Transfer(default_conflict_action, "default", fault)

\* str.strip() on the characters typed
RECURSIVE Strip(_)
Strip(chars) ==
    IF chars = <<>> THEN chars
    ELSE IF Head(chars) = " " THEN Strip(Tail(chars))
    ELSE IF chars[Len(chars)] = " " THEN Strip(SubSeq(chars, 1, Len(chars) - 1))
    ELSE chars

\* str.upper() on one character
UpperChar(c) ==
    CASE c = "r" -> "R" [] c = "k" -> "K" [] c = "s" -> "S" [] c = "x" -> "X"
      [] OTHER -> c

Upper(chars) == [i \in DOMAIN chars |-> UpperChar(chars[i])]

\* _ask_conflict_resolution, lines 301-310: the choice read, None when invalid
Choice(chars) ==
    LET choice == Upper(Strip(chars))
    IN IF choice = <<"R">> THEN REPLACE
       ELSE IF choice = <<"K">> THEN KEEP_BOTH
       ELSE IF choice = <<"S">> THEN SKIP
       ELSE None

\* _ask_conflict_resolution, lines 299-310: a line is read at the prompt
PromptInput(chars) ==
    /\ pc = "prompt"
    /\ IF Choice(chars) # None
       THEN \E fault \in Faults : Transfer(Choice(chars), "input", fault)
       ELSE /\ rejects < MaxRejects
            /\ rejects' = rejects + 1
            /\ UNCHANGED <<clipboard, operation_type, fs, pc, dest_path,
                           default_conflict_action, idx, success_count, failed_count,
                           call, pre, ret, outcomes, nops, exit_code, staged>>

\* an interrupt that the entry's error handler takes for a failure of the entry
PromptInterruptCountsFailure ==
    /\ pc = "prompt"
    /\ pc' = "loop"
    /\ idx' = idx + 1
    /\ failed_count' = failed_count + 1
    /\ rejects' = 0
    /\ outcomes' = Append(outcomes,
           Outcome(fs, clipboard[idx], dest_path, None, "interrupt",
                   [res |-> "fail", fs |-> fs,
                    dst |-> Join(dest_path, Name(clipboard[idx]))]))
    /\ UNCHANGED <<clipboard, operation_type, fs, dest_path, default_conflict_action,
                   success_count, call, pre, ret, nops, exit_code, staged>>

\* _ask_conflict_resolution, lines 311-313: KeyboardInterrupt, sys.exit(0)
PromptInterrupt ==
    /\ pc = "prompt"
    /\ pc' = "exited"
    /\ exit_code' = 0
    /\ UNCHANGED <<clipboard, operation_type, fs, dest_path, default_conflict_action,
                   idx, success_count, failed_count, rejects, call, pre, ret,
                   outcomes, nops, staged>>

\* _ask_conflict_resolution, lines 314-316: input() fails otherwise, SKIP
PromptError ==
    /\ pc = "prompt"
    /\ \E fault \in Faults : Transfer(SKIP, "error", fault)

\* a return that clears a CUT clipboard only when something was moved
PasteReturnClearsOnSuccess ==
    /\ pc = "loop" /\ idx > Len(clipboard)
    /\ IF operation_type = CUT /\ failed_count = 0 /\ success_count > 0
       THEN clipboard' = <<>> /\ operation_type' = None /\ staged' = <<>>
       ELSE UNCHANGED <<clipboard, operation_type, staged>>
    /\ ret' = IF success_count > 0 THEN "True" ELSE "False"
    /\ pc' = "idle"
    /\ dest_path' = NoPath
    /\ default_conflict_action' = None
    /\ idx' = 0
    /\ success_count' = 0
    /\ failed_count' = 0
    /\ UNCHANGED <<fs, rejects, call, pre, outcomes, nops, exit_code>>

\* a return that clears a CUT clipboard whatever failed
PasteReturnClearsAlways ==
    /\ pc = "loop" /\ idx > Len(clipboard)
    /\ IF operation_type = CUT
       THEN clipboard' = <<>> /\ operation_type' = None /\ staged' = <<>>
       ELSE UNCHANGED <<clipboard, operation_type, staged>>
    /\ ret' = IF success_count > 0 THEN "True" ELSE "False"
    /\ pc' = "idle"
    /\ dest_path' = NoPath
    /\ default_conflict_action' = None
    /\ idx' = 0
    /\ success_count' = 0
    /\ failed_count' = 0
    /\ UNCHANGED <<fs, rejects, call, pre, outcomes, nops, exit_code>>

\* a return that clears the clipboard after any paste without failures
PasteReturnClearsAnyIntent ==
    /\ pc = "loop" /\ idx > Len(clipboard)
    /\ IF failed_count = 0
       THEN clipboard' = <<>> /\ operation_type' = None /\ staged' = <<>>
       ELSE UNCHANGED <<clipboard, operation_type, staged>>
    /\ ret' = IF success_count > 0 THEN "True" ELSE "False"
    /\ pc' = "idle"
    /\ dest_path' = NoPath
    /\ default_conflict_action' = None
    /\ idx' = 0
    /\ success_count' = 0
    /\ failed_count' = 0
    /\ UNCHANGED <<fs, rejects, call, pre, outcomes, nops, exit_code>>

\* a return whose status is the absence of failures
PasteReturnNoFailures ==
    /\ pc = "loop" /\ idx > Len(clipboard)
    /\ IF operation_type = CUT /\ failed_count = 0
       THEN clipboard' = <<>> /\ operation_type' = None /\ staged' = <<>>
       ELSE UNCHANGED <<clipboard, operation_type, staged>>
    /\ ret' = IF failed_count = 0 THEN "True" ELSE "False"
    /\ pc' = "idle"
    /\ dest_path' = NoPath
    /\ default_conflict_action' = None
    /\ idx' = 0
    /\ success_count' = 0
    /\ failed_count' = 0
    /\ UNCHANGED <<fs, rejects, call, pre, outcomes, nops, exit_code>>

\* paste, lines 201-209: after the loop; the locals end with the call
PasteReturn ==
    /\ pc = "loop" /\ idx > Len(clipboard)
    /\ IF operation_type = CUT /\ failed_count = 0
       THEN clipboard' = <<>> /\ operation_type' = None /\ staged' = <<>>
       ELSE UNCHANGED <<clipboard, operation_type, staged>>
    /\ ret' = IF success_count > 0 THEN "True" ELSE "False"
    /\ pc' = "idle"
    /\ dest_path' = NoPath
    /\ default_conflict_action' = None
    /\ idx' = 0
    /\ success_count' = 0
    /\ failed_count' = 0
    /\ UNCHANGED <<fs, rejects, call, pre, outcomes, nops, exit_code>>

\* a clear that empties the list and leaves the intent
ClearKeepsIntent ==
    /\ pc = "idle" /\ nops < MaxOps
    /\ clipboard' = <<>>
    /\ staged' = <<>>
    /\ call' = Call("clear", <<>>, NoPath, None)
    /\ pre' = Snapshot
    /\ ret' = "None"
    /\ outcomes' = <<>>
    /\ nops' = nops + 1
    /\ UNCHANGED <<operation_type, fs, pc, exit_code>>
    /\ UNCHANGED PasteLocals

\* FileOperations.clear_clipboard
ClearClipboard ==
    /\ pc = "idle" /\ nops < MaxOps
    /\ clipboard' = <<>>
    /\ operation_type' = None
    /\ staged' = <<>>
    /\ call' = Call("clear", <<>>, NoPath, None)
    /\ pre' = Snapshot
    /\ ret' = "None"
    /\ outcomes' = <<>>
    /\ nops' = nops + 1
    /\ UNCHANGED <<fs, pc, exit_code>>
    /\ UNCHANGED PasteLocals

\* FileOperations.show_clipboard
ShowClipboard ==
    /\ pc = "idle" /\ nops < MaxOps
    /\ call' = Call("show", <<>>, NoPath, None)
    /\ pre' = Snapshot
    /\ ret' = "None"
    /\ outcomes' = <<>>
    /\ nops' = nops + 1
    /\ UNCHANGED <<clipboard, operation_type, fs, pc, exit_code, staged>>
    /\ UNCHANGED PasteLocals

Next ==
    \/ \E paths \in PathLists : Copy(paths)
    \/ \E paths \in PathLists : Cut(paths)
    \/ \E destination \in DestInputs, dflt \in DefaultInputs : PasteCall(destination, dflt)
    \/ PasteEntry
    \/ \E chars \in PromptInputs : PromptInput(chars)
    \/ PromptInterrupt
    \/ PromptError
    \/ PasteReturn
    \/ ClearClipboard
    \/ ShowClipboard

Spec == Init /\ [][Next]_vars

(*********************** the command-line binding **************************)
(* main() of lines 376-432: every invocation is a process of its own, so   *)
(* what outlives it is the filesystem.  One action is one invocation, from *)
(* the construction of the object to sys.exit.  Between invocations the    *)
(* variables clipboard and operation_type hold the object of the last      *)
(* process as it was at exit, and pre is taken when the invocation begins: *)
(* it holds what the previous process left.  Signals delivered to the      *)
(* process from outside are not part of this specification.                *)

\* sys.argv[0]
Program == "file_operations.py"

\* sys.argv[1] as typed, character by character
CommandInputs ==
    {<<"c", "o", "p", "y">>, <<"C", "U", "T">>, <<"P", "a", "s", "t", "e">>,
     <<"s", "h", "o", "w">>, <<"c", "l", "e", "a", "r">>, <<"m", "v">>}

\* sys.argv[2:], the paths given after the command
ArgLists == PathLists \cup {<<destination>> : destination \in DestInputs}

ArgvInputs == {<<Program>>} \cup {<<Program, c>> \o args : c \in CommandInputs, args \in ArgLists}

\* str.lower() on one character
LowerChar(c) ==
    CASE c = "C" -> "c" [] c = "U" -> "u" [] c = "T" -> "t" [] c = "P" -> "p"
      [] OTHER -> c

Lower(chars) == [i \in DOMAIN chars |-> LowerChar(chars[i])]

\* an object that is read back from what the last process left
KeptFileOperations == [clipboard |-> clipboard, operation_type |-> operation_type]

\* FileOperations(): the object after __init__
NewFileOperations == [clipboard |-> <<>>, operation_type |-> None]

\* copy and cut on the object file_ops: the object left and what is returned
Stage(file_ops, op, f, paths) ==
    LET v == Validate(f, paths, <<>>)
    IN IF v.ok
       THEN [clipboard |-> v.validated_paths, operation_type |-> op,
             staged |-> StagedTrees(f, v.validated_paths), ret |-> "True"]
       ELSE [clipboard |-> file_ops.clipboard, operation_type |-> file_ops.operation_type,
             staged |-> <<>>, ret |-> "False"]

\* sys.exit(code): the process ends with the object as it is
MainExit(object, c, r, code) ==
    /\ clipboard' = object.clipboard
    /\ operation_type' = object.operation_type
    /\ staged' = object.staged
    /\ call' = c
    /\ ret' = r
    /\ exit_code' = code
    /\ pc' = "exited"
    /\ UNCHANGED fs
    /\ UNCHANGED PasteLocals

\* main(): one invocation with the command line argv
Main(argv) ==
    /\ pc \in {"idle", "exited"} /\ nops < MaxOps
    /\ pre' = Snapshot
    /\ nops' = nops + 1
    /\ outcomes' = <<>>
    /\ LET file_ops == NewFileOperations
           unstaged == [clipboard |-> file_ops.clipboard,
                        operation_type |-> file_ops.operation_type,
                        staged |-> IF file_ops.clipboard = <<>> THEN <<>> ELSE staged]
           command == Lower(argv[2])
           paths == SubSeq(argv, 3, Len(argv))
           Usage == MainExit(unstaged, Call("usage", <<>>, NoPath, None), "None", 1)
       IN IF Len(argv) < 2 THEN Usage
          ELSE IF command = <<"c", "o", "p", "y">>
          THEN IF Len(argv) < 3 THEN Usage
               ELSE LET o == Stage(file_ops, COPY, fs, paths)
                    IN MainExit(IF o.ret = "True" THEN o ELSE unstaged,
                                Call("copy", paths, NoPath, None), o.ret,
                                IF o.ret = "True" THEN 0 ELSE 1)
          ELSE IF command = <<"c", "u", "t">>
          THEN IF Len(argv) < 3 THEN Usage
               ELSE LET o == Stage(file_ops, CUT, fs, paths)
                    IN MainExit(IF o.ret = "True" THEN o ELSE unstaged,
                                Call("cut", paths, NoPath, None), o.ret,
                                IF o.ret = "True" THEN 0 ELSE 1)
          ELSE IF command = <<"p", "a", "s", "t", "e">>
          THEN IF Len(argv) < 3 THEN Usage
               ELSE LET destination == argv[3]
                    IN IF \/ file_ops.clipboard = <<>>
                          \/ file_ops.operation_type = None
                          \/ ~Exists(fs, destination)
                          \/ ~IsDir(fs, destination)
                       THEN MainExit(unstaged, Call("paste", <<>>, destination, None),
                                     "False", 1)
                       ELSE /\ clipboard' = file_ops.clipboard
                            /\ operation_type' = file_ops.operation_type
                            /\ call' = Call("paste", <<>>, destination, None)
                            /\ ret' = "None"
                            /\ exit_code' = -1
                            /\ pc' = "loop"
                            /\ dest_path' = destination
                            /\ default_conflict_action' = None
                            /\ idx' = 1
                            /\ success_count' = 0
                            /\ failed_count' = 0
                            /\ UNCHANGED <<fs, rejects, staged>>
          ELSE IF command = <<"s", "h", "o", "w">>
          THEN MainExit(unstaged, Call("show", <<>>, NoPath, None), "None", 0)
          ELSE IF command = <<"c", "l", "e", "a", "r">>
          THEN MainExit([clipboard |-> <<>>, operation_type |-> None, staged |-> <<>>],
                        Call("clear", <<>>, NoPath, None), "None", 0)
          ELSE Usage

(* The loop of paste is not among the steps of this specification: an      *)
(* invocation that reached it would be left at pc = "loop", which          *)
(* PasteInvocationFindsNothing shows never to happen.                      *)
MainNext == \E argv \in ArgvInputs : Main(argv)

MainSpec == Init /\ [][MainNext]_vars

(***************************** claims **************************************)
\* the last call was a paste whose loop has run and that has returned
PasteCompleted == call.op = "paste" /\ pc = "idle" /\ outcomes # <<>>

LastOutcome == outcomes[Len(outcomes)]

(* C1: in every reachable state the intent is None if and only if the      *)
(* clipboard is empty, staging an empty list included.                     *)
IntentNoneIffClipboardEmpty == (operation_type = None) <=> (clipboard = <<>>)

(* C2: a copy or cut given a list with a missing path returns False and    *)
(* leaves the clipboard and the intent as they were before the call.       *)
StagingMissingPathChangesNothing ==
    (/\ call.op \in {"copy", "cut"}
     /\ \E i \in DOMAIN call.paths : ~Exists(pre.fs, call.paths[i]))
    => /\ ret = "False"
       /\ clipboard = pre.clipboard
       /\ operation_type = pre.operation_type

\* C2 witness: a cut whose second path is missing, on a loaded clipboard
StagingMissingPathReached ==
    /\ call.op = "cut"
    /\ Len(call.paths) = 2
    /\ Exists(pre.fs, call.paths[1])
    /\ ~Exists(pre.fs, call.paths[2])
    /\ pre.clipboard # <<>>
    /\ pre.operation_type = COPY
    /\ ret = "False"

(* C3: a copy or cut of a non-empty list of existing paths returns True    *)
(* and leaves exactly those paths in the clipboard, each absolute (a       *)
(* relative one joined to the working directory), in order, duplicates     *)
(* kept, under the intent asked for, whatever the clipboard held before.   *)
StagingReplacesClipboard ==
    (/\ call.op \in {"copy", "cut"}
     /\ call.paths # <<>>
     /\ \A i \in DOMAIN call.paths : Exists(pre.fs, call.paths[i]))
    => /\ ret = "True"
       /\ operation_type = call.op
       /\ Len(clipboard) = Len(call.paths)
       /\ \A i \in DOMAIN call.paths :
            /\ clipboard[i].abs
            /\ clipboard[i].parts = IF call.paths[i].abs THEN call.paths[i].parts
                                    ELSE <<DirW>> \o call.paths[i].parts

\* C3 witness: a copy of the same relative path twice over a CUT clipboard
StagingReplacesReached ==
    /\ call.op = "copy"
    /\ Len(call.paths) = 2
    /\ call.paths[1] = call.paths[2]
    /\ ~call.paths[1].abs
    /\ pre.operation_type = CUT
    /\ pre.clipboard # <<>>
    /\ Len(clipboard) = 2
    /\ ret = "True"

(* C4: a paste called with an empty clipboard, or with a destination that  *)
(* does not exist or is not a directory, returns False at once: no entry   *)
(* is processed and the filesystem, the clipboard and the intent are those *)
(* of before the call.                                                     *)
PasteValidationChangesNothing ==
    (/\ call.op = "paste"
     /\ \/ pre.clipboard = <<>>
        \/ ~Exists(pre.fs, call.dest)
        \/ ~IsDir(pre.fs, call.dest))
    => /\ pc = "idle"
       /\ ret = "False"
       /\ outcomes = <<>>
       /\ fs = pre.fs
       /\ clipboard = pre.clipboard
       /\ operation_type = pre.operation_type

\* C4 witness: a paste of a loaded clipboard into a path that is a file
PasteValidationReached ==
    /\ call.op = "paste"
    /\ pre.clipboard # <<>>
    /\ Exists(pre.fs, call.dest)
    /\ ~IsDir(pre.fs, call.dest)
    /\ ret = "False"

(* C5: after a paste with CUT intent that ran to its end with no failed    *)
(* entry (each succeeded or was skipped), the clipboard is empty and the   *)
(* intent is None.                                                         *)
CutPasteWithoutFailureClears ==
    (/\ PasteCompleted
     /\ pre.operation_type = CUT
     /\ Count(outcomes, "fail") = 0)
    => /\ clipboard = <<>>
       /\ operation_type = None

\* C5 witness: a CUT paste of two entries, both skipped, has returned
CutPasteAllSkippedReached ==
    /\ PasteCompleted
    /\ pre.operation_type = CUT
    /\ Len(outcomes) = 2
    /\ Count(outcomes, "skip") = 2
    /\ fs = pre.fs
    /\ clipboard = <<>>

(* C6: during and after a paste with CUT intent in which an entry failed,  *)
(* the clipboard and the intent are those of before the call.              *)
CutPasteWithFailureKeeps ==
    (/\ call.op = "paste"
     /\ pre.operation_type = CUT
     /\ Count(outcomes, "fail") > 0)
    => /\ clipboard = pre.clipboard
       /\ operation_type = CUT

\* C6 witness: the first entry was moved, the second failed, paste returned
CutPastePartialFailureReached ==
    /\ PasteCompleted
    /\ pre.operation_type = CUT
    /\ Len(outcomes) = 2
    /\ outcomes[1].res = "ok"
    /\ outcomes[2].res = "fail"
    /\ ~Exists(fs, clipboard[1])
    /\ Exists(fs, clipboard[2])

(* C7: during and after a paste with COPY intent, whatever happened to the *)
(* entries, the clipboard and the intent are those of before the call.     *)
CopyPasteKeepsClipboard ==
    (/\ call.op = "paste"
     /\ pre.operation_type = COPY)
    => /\ clipboard = pre.clipboard
       /\ operation_type = COPY

\* C7 witness: a COPY paste of two entries, both copied, has returned
CopyPasteAllCopiedReached ==
    /\ PasteCompleted
    /\ pre.operation_type = COPY
    /\ Len(outcomes) = 2
    /\ Count(outcomes, "ok") = 2
    /\ clipboard # <<>>

(* C8: in paste, each failed entry adds exactly one to failed_count and    *)
(* the loop goes on to the next entry; a paste that passed its checks      *)
(* returns a boolean after it has processed every staged entry in order.   *)
EntryFailureIsIsolated ==
    /\ pc \in {"loop", "prompt"}
       => /\ failed_count = Count(outcomes, "fail")
          /\ Len(outcomes) = idx - 1
    /\ PasteCompleted
       => /\ ret \in {"True", "False"}
          /\ Len(outcomes) = Len(pre.clipboard)
          /\ \A i \in DOMAIN outcomes : outcomes[i].src = pre.clipboard[i]

\* C8 witness: the first entry failed and the second was then transferred
FailureThenTransferReached ==
    /\ PasteCompleted
    /\ Len(outcomes) = 2
    /\ outcomes[1].res = "fail"
    /\ outcomes[2].res = "ok"
    /\ Exists(fs, outcomes[2].dst)

(* C9: a paste returns True if and only if at least one entry was          *)
(* transferred.                                                            *)
PasteTrueIffSomeTransfer ==
    (call.op = "paste" /\ pc = "idle")
    => (ret = "True" <=> Count(outcomes, "ok") > 0)

\* C9 witness: one entry skipped, the other failed, and paste returned False
PasteNoTransferReached ==
    /\ PasteCompleted
    /\ Count(outcomes, "skip") = 1
    /\ Count(outcomes, "fail") = 1
    /\ ret = "False"

(* C10: once an entry that met an existing target under REPLACE has        *)
(* succeeded, its final path is the naive target and the tree there is     *)
(* exactly the tree the source held, with nothing of the old target left.  *)
ReplaceLeavesSourceContentOnly ==
    (/\ outcomes # <<>>
     /\ LastOutcome.res = "ok"
     /\ LastOutcome.conflict
     /\ LastOutcome.action = REPLACE)
    => /\ LastOutcome.dst = LastOutcome.naive
       /\ TreeAt(fs, Loc(LastOutcome.naive)) = LastOutcome.srctree

\* C10 witness: a directory replaced a directory that held another file
ReplaceDirectoryReached ==
    /\ outcomes # <<>>
    /\ LastOutcome.res = "ok"
    /\ LastOutcome.conflict
    /\ LastOutcome.action = REPLACE
    /\ Loc(LastOutcome.naive) = <<DirD, NData>>
    /\ <<DirD, NData, NKidY>> \in DOMAIN pre.fs
    /\ <<DirD, NData, NKidY>> \notin DOMAIN fs
    /\ <<DirD, NData, NKidX>> \in DOMAIN fs

\* a step of paste's loop that ends the processing of one entry
EntryStep == Len(outcomes') = Len(outcomes) + 1

\* the outcome that step records
NewOutcome == outcomes'[Len(outcomes')]

(* C11: an entry that meets an existing target under SKIP is reported as   *)
(* skipped; the step leaves the whole filesystem unchanged (the target and *)
(* the source among it) and adds to neither success_count nor failed_count.*)
SkipChangesNothing ==
    [][(EntryStep /\ NewOutcome.conflict /\ NewOutcome.action = SKIP)
       => /\ NewOutcome.res = "skip"
          /\ fs' = fs
          /\ success_count' = success_count
          /\ failed_count' = failed_count]_vars

\* C11 witness: the second entry was skipped after the first was transferred
SkipAfterTransferReached ==
    /\ pc = "loop"
    /\ Len(outcomes) = 2
    /\ outcomes[1].res = "ok"
    /\ LastOutcome.res = "skip"
    /\ LastOutcome.conflict
    /\ LastOutcome.action = SKIP
    /\ Exists(fs, LastOutcome.naive)
    /\ Exists(fs, LastOutcome.src)
    /\ success_count = 1
    /\ failed_count = 0

\* the entry that step processed was a regular file when the step began
NewOutcomeIsFile ==
    /\ <<>> \in DOMAIN NewOutcome.srctree
    /\ NewOutcome.srctree[<<>>].kind = "file"

\* the sibling of path whose name carries the counter k before the extension
Numbered(path, k) ==
    Join(Parent(path),
         Stem(Name(path)) \o <<" (" \o ToString(k) \o ")">> \o Suffix(Name(path)))

(* C12: for a file entry that meets an existing target under KEEP_BOTH,    *)
(* the final path is the target's sibling `stem (k)ext` with k the least   *)
(* integer from 1 whose name does not exist when the entry is processed;   *)
(* for r.t with r.t and r (1).t present and r (2).t absent it is r (2).t.  *)
KeepBothPicksLeastCounter ==
    [][(/\ EntryStep
        /\ NewOutcome.conflict
        /\ NewOutcome.action = KEEP_BOTH
        /\ NewOutcomeIsFile)
       => /\ \E k \in 1..(Cardinality(DOMAIN fs) + 1) :
               /\ NewOutcome.dst = Numbered(NewOutcome.naive, k)
               /\ ~Exists(fs, Numbered(NewOutcome.naive, k))
               /\ \A j \in 1..(k - 1) : Exists(fs, Numbered(NewOutcome.naive, j))
          /\ (/\ Name(NewOutcome.naive) = <<"r", ".", "t">>
              /\ Exists(fs, Join(dest_path, <<"r", " (1)", ".", "t">>))
              /\ ~Exists(fs, Join(dest_path, <<"r", " (2)", ".", "t">>)))
             => Name(NewOutcome.dst) = <<"r", " (2)", ".", "t">>]_vars

\* C12 witness: r.t was copied to r (2).t beside r.t and r (1).t
KeepBothSecondCounterReached ==
    /\ outcomes # <<>>
    /\ LastOutcome.res = "ok"
    /\ LastOutcome.conflict
    /\ LastOutcome.action = KEEP_BOTH
    /\ Name(LastOutcome.src) = <<"r", ".", "t">>
    /\ Name(LastOutcome.dst) = <<"r", " (2)", ".", "t">>
    /\ \A n \in {<<"r", ".", "t">>, <<"r", " (1)", ".", "t">>, <<"r", " (2)", ".", "t">>} :
          Exists(fs, Join(Parent(LastOutcome.dst), n))
    /\ TreeAt(fs, Loc(LastOutcome.dst)) = LastOutcome.srctree

(* C13: for a directory entry that meets an existing target under         *)
(* KEEP_BOTH, the final name is the directory's whole name followed by the *)
(* counter, also when the name holds a dot: d.v becomes `d.v (k)`.         *)
KeepBothNumbersWholeDirectoryName ==
    (/\ outcomes # <<>>
     /\ LastOutcome.conflict
     /\ LastOutcome.action = KEEP_BOTH
     /\ <<>> \in DOMAIN LastOutcome.srctree
     /\ LastOutcome.srctree[<<>>].kind = "dir")
    => \E k \in 1..(Cardinality(DOMAIN fs) + 1) :
          Name(LastOutcome.dst) =
              Append(Name(LastOutcome.naive), " (" \o ToString(k) \o ")")

(* C14: when the user interrupts the conflict prompt of a paste, the       *)
(* process exits with a code that is neither 0 (success) nor 1 (failure).  *)
InterruptExitsWithDistinctCode ==
    pc = "exited" => exit_code \notin {0, 1}

(* C15: an interrupt at the prompt for the entry at idx ends the process   *)
(* there: that step changes nothing in the filesystem (what earlier        *)
(* entries placed stays), records no outcome and counts no failure, and    *)
(* no step follows the exit, so neither that entry nor a later one is      *)
(* touched.                                                                *)
InterruptCancelsPaste ==
    [][/\ PromptInterrupt
          => /\ pc' = "exited"
             /\ fs' = fs
             /\ outcomes' = outcomes
             /\ Len(outcomes) = idx - 1
             /\ failed_count' = failed_count
             /\ success_count' = success_count
       /\ pc # "exited"]_vars

\* C15 witness: interrupted at the second entry, the first one's copy in place
InterruptAtSecondEntryReached ==
    /\ pc = "exited"
    /\ idx = 2
    /\ Len(clipboard) = 2
    /\ Len(outcomes) = 1
    /\ outcomes[1].res = "ok"
    /\ TreeAt(fs, Loc(outcomes[1].dst)) = outcomes[1].srctree
    /\ fs # pre.fs
    /\ failed_count = 0
    /\ ret = "None"

(* C16: every decision the conflict prompt produces was typed as one of    *)
(* the tokens R, K, S; any other event at the prompt is rejected and the   *)
(* prompt asks again, so no entry gets a decision nobody typed.            *)
PromptDecisionsAreTyped ==
    \A i \in DOMAIN outcomes :
        outcomes[i].via # "default" => outcomes[i].via = "input"

(* C17: in a paste with CUT intent, once an entry is recorded as           *)
(* succeeded its source is gone and its content is at the final path, and  *)
(* once it is recorded as failed its source is still there, unchanged.     *)
CutEntryMovedOrUntouched ==
    (/\ call.op = "paste"
     /\ pre.operation_type = CUT
     /\ outcomes # <<>>)
    => /\ LastOutcome.res = "ok"
          => /\ ~Exists(fs, LastOutcome.src)
             /\ TreeAt(fs, Loc(LastOutcome.dst)) = LastOutcome.srctree
       /\ LastOutcome.res = "fail"
          => /\ Exists(fs, LastOutcome.src)
             /\ TreeAt(fs, Loc(LastOutcome.src)) = LastOutcome.srctree

(* C18: during and after a paste with COPY intent, every staged path that  *)
(* existed when paste was called still exists with the content it had,     *)
(* for every destination directory and every conflict decision.            *)
CopyPasteRetainsSources ==
    (/\ call.op = "paste"
     /\ pre.operation_type = COPY)
    => \A i \in DOMAIN pre.clipboard :
          Exists(pre.fs, pre.clipboard[i])
          => TreeAt(fs, Loc(pre.clipboard[i])) = TreeAt(pre.fs, Loc(pre.clipboard[i]))

(* C19: in a paste given a default decision the prompt is never entered    *)
(* and every entry that meets an existing target gets that decision: SKIP  *)
(* skips it, REPLACE keeps the naive target, KEEP_BOTH picks another path. *)
(* In any paste, an entry whose naive target does not exist is not skipped *)
(* and goes to the naive target, which holds its content once it succeeds. *)
DefaultDecisionApplied ==
    call.op = "paste"
    => /\ call.dflt # None
          => /\ pc # "prompt"
             /\ \A i \in DOMAIN outcomes :
                  /\ outcomes[i].via = "default"
                  /\ outcomes[i].action = call.dflt
                  /\ outcomes[i].conflict
                     => /\ call.dflt = SKIP => outcomes[i].res = "skip"
                        /\ call.dflt = REPLACE
                           => /\ outcomes[i].res # "skip"
                              /\ outcomes[i].dst = outcomes[i].naive
                        /\ call.dflt = KEEP_BOTH
                           => /\ outcomes[i].res # "skip"
                              /\ outcomes[i].dst # outcomes[i].naive
       /\ \A i \in DOMAIN outcomes :
            ~outcomes[i].conflict
            => /\ outcomes[i].res # "skip"
               /\ outcomes[i].dst = outcomes[i].naive
       /\ (/\ outcomes # <<>>
           /\ ~LastOutcome.conflict
           /\ LastOutcome.res = "ok")
          => TreeAt(fs, Loc(LastOutcome.naive)) = LastOutcome.srctree

\* C19 witness: under a KEEP_BOTH default, one entry renamed and one placed as is
DefaultKeepBothReached ==
    /\ PasteCompleted
    /\ call.dflt = KEEP_BOTH
    /\ Len(outcomes) = 2
    /\ outcomes[1].conflict
    /\ outcomes[1].res = "ok"
    /\ outcomes[1].dst # outcomes[1].naive
    /\ ~outcomes[2].conflict
    /\ outcomes[2].res = "ok"
    /\ outcomes[2].dst = outcomes[2].naive
    /\ Exists(fs, outcomes[2].naive)

(* C20: after clear_clipboard, whatever the clipboard held, the clipboard  *)
(* is empty, the intent is None and the filesystem is as it was.           *)
ClearResetsClipboard ==
    call.op = "clear"
    => /\ clipboard = <<>>
       /\ operation_type = None
       /\ fs = pre.fs

\* C20 witness: cleared a CUT clipboard that listed a moved and a pending entry
ClearAfterPartialCutReached ==
    /\ call.op = "clear"
    /\ pre.operation_type = CUT
    /\ Len(pre.clipboard) = 2
    /\ ~Exists(pre.fs, pre.clipboard[1])
    /\ Exists(pre.fs, pre.clipboard[2])
    /\ clipboard = <<>>
    /\ operation_type = None


\* the entries of f present in directory dir, the directory itself left out
EntriesIn(f, dir) == {x \in DOMAIN f : IsPrefix(Loc(dir), x) /\ x # Loc(dir)}

(* C21: in a paste under a KEEP_BOTH default, the step that resolves an    *)
(* entry leaves every entry present in the destination directory at that   *)
(* moment in place with its content, and the entries recorded as succeeded *)
(* within the call have pairwise distinct final paths.                     *)
KeepBothPreservesDestination ==
    [][(EntryStep /\ default_conflict_action = KEEP_BOTH)
       => /\ \A x \in EntriesIn(fs, dest_path) : x \in DOMAIN fs' /\ fs'[x] = fs[x]
          /\ \A i, j \in DOMAIN outcomes' :
                (i < j /\ outcomes'[i].res = "ok" /\ outcomes'[j].res = "ok")
                => Loc(outcomes'[i].dst) # Loc(outcomes'[j].dst)]_vars


\* the directories a paste may be directed to, as they are in f
DestinationDirs(f) == {d \in DestInputs : IsDir(f, d)}

\* the tree t is found in f at the path q or directly inside a destination
ContentKept(f, q, t) ==
    \/ (q \in DOMAIN f /\ TreeAt(f, q) = t)
    \/ \E d \in DestinationDirs(f) : \E x \in EntriesIn(f, d) :
          Len(x) = Len(Loc(d)) + 1 /\ TreeAt(f, x) = t

(* C22: when a paste on a CUT clipboard has processed its last entry, a    *)
(* retry after a partly failed paste included and whatever the decisions,  *)
(* the content each staged entry held when it was cut is found at its      *)
(* source path or at a path in a destination directory.                    *)
CutContentNeverLost ==
    (/\ call.op = "paste" /\ pc = "loop" /\ idx > Len(clipboard)
     /\ operation_type = CUT)
    => \A i \in DOMAIN clipboard : ContentKept(fs, Loc(clipboard[i]), staged[i])


====
